---- MODULE Spec2Model ----
(***************************************************************************)
(* Model of diagnose_oracle_tables.py: a script that prints diagnostic SQL *)
(* for the tables of TABLES_TO_CHECK.  The script is straight-line code     *)
(* with four configuration-driven loops; the state is the configuration,   *)
(* the position in the script (pc and the two loop cursors) and the text    *)
(* printed so far (one chunk per print call).                               *)
(*                                                                         *)
(* A printed chunk is a record  [kind, title, queries] : kind names the     *)
(* print statement, title holds the text lines / interpolated comment, and  *)
(* queries is the sequence of SQL statements the chunk contains.  A SQL     *)
(* statement is kept as the identifiers it is built from, in the order they *)
(* appear in the text:                                                      *)
(*    literals  string literals        ('{table}' as tbl, owner = '..')     *)
(*    select    column references of the SELECT list                        *)
(*    guarded   the columns returned through CASE .. THEN NULL              *)
(*    schema, table   the FROM clause                                       *)
(*    where     column references of the WHERE clause                       *)
(*    tail      column references of GROUP BY / ORDER BY                    *)
(***************************************************************************)
EXTENDS Integers, Sequences, FiniteSets

VARIABLES
    TABLES_TO_CHECK,  \* ordered mapping: sequence of [name, date_filter_col, date_columns, numeric_columns]
    SCHEMA,           \* the schema name
    pc,               \* position in the script
    ti,               \* cursor of `for table, config in TABLES_TO_CHECK.items()`
    ci,               \* cursor of the inner `for .. in config[..]` loop (0 outside it)
    out,              \* standard output of this invocation: sequence of chunks
    env,              \* the process environment of this invocation (never read)
    run,              \* number of this invocation
    prevConfig,       \* configuration of the previous invocation
    prevOut,          \* standard output of the previous invocation
    universe          \* which configurations an invocation may be started with

vars == <<TABLES_TO_CHECK, SCHEMA, pc, ti, ci, out, env, run, prevConfig, prevOut, universe>>

(***************************************************************************)
(* Bounds of the configurations explored besides the shipped one.           *)
(***************************************************************************)
MaxTables == 2
MaxEntries == 3
MaxRuns == 2

(***************************************************************************)
(* CONFIGURATION (lines 16-34)                                              *)
(***************************************************************************)
TablesLiteral ==
    << [name |-> "WH_LOANS",
        date_filter_col |-> "RUNDATE",
        date_columns |-> <<"RUNDATE", "ORIGDATE", "DATEMAT", "PAIDOFFDATE",
                           "DATELASTMAINT", "ADDDATE", "STOPDATE">>,
        numeric_columns |-> <<"ORIGBAL", "NOTEBAL", "BOOKBALANCE", "AVAILBALAMT",
                              "COBAL", "PCTPARTSOLD", "LCRATE", "OLDPI", "PF">>],
       [name |-> "WH_ACCTCOMMON",
        date_filter_col |-> "EFFDATE",
        date_columns |-> <<"EFFDATE", "CONTRACTDATE", "DATEMAT", "CLOSEDATE",
                           "DATELASTMAINT">>,
        numeric_columns |-> <<"BOOKBALANCE", "AVAILBAL", "YTDINTPD", "YTDINTACC",
                              "INTRATE">>],
       [name |-> "WH_ACCT",
        date_filter_col |-> "RUNDATE",
        date_columns |-> <<"RUNDATE", "DATEMAT", "EFFDATE", "DATELASTMAINT">>,
        numeric_columns |-> <<"BOOKBALANCE", "AVAILBAL", "INTRATE">>] >>

SchemaLiteral == "COCCDM"

(***************************************************************************)
(* Text templates.                                                          *)
(***************************************************************************)
Query(k, lits, sel, grd, sch, tab, whr, tl) ==
    [q |-> k, literals |-> lits, select |-> sel, guarded |-> grd,
     schema |-> sch, table |-> tab, where |-> whr, tail |-> tl]

Chunk(k, ttl, qs) == [kind |-> k, title |-> ttl, queries |-> qs]

\* lines 40-43
HeaderBanner ==
    Chunk("banner", <<"=", "DIAGNOSTIC SQL QUERIES",
                      "Run these in SQL Developer, TOAD, or any Oracle client">>, <<>>)

\* lines 46-49
DateBanner ==
    Chunk("banner", <<"-", "1. INVALID DATE CHECK",
                      "   Dates < 0001-01-01 or > 9999-12-31 cause .NET DateTime errors">>, <<>>)

\* line 52
DateTableComment(table) == Chunk("date_comment", <<table, "date validation">>, <<>>)

\* variant: the last WHERE disjunct was pasted from the RUNDATE query
InvalidDateQuery_CopyPaste(schema, table, date_col) ==
    Chunk("invalid_date", <<>>,
          << Query("invalid_date",
                   <<table, date_col>>,
                   <<date_col, date_col>>,
                   <<>>,
                   schema, table,
                   <<date_col, date_col, date_col, "RUNDATE">>,
                   <<>>) >>)

\* lines 54-64
InvalidDateQuery(schema, table, date_col) ==
    Chunk("invalid_date", <<>>,
          << Query("invalid_date",
                   <<table, date_col>>,
                   <<date_col, date_col>>,
                   <<>>,
                   schema, table,
                   <<date_col, date_col, date_col, date_col>>,
                   <<>>) >>)

\* lines 67-70
DistBanner ==
    Chunk("banner", <<"-", "2. DATE DISTRIBUTION CHECK",
                      "   Understand what dates are actually in the data">>, <<>>)

\* lines 74-90: one print, two statements
DateDistribution(schema, table, date_col) ==
    Chunk("date_distribution", <<table, "Date range and distribution">>,
          << Query("date_summary",
                   <<>>,
                   <<date_col, date_col, date_col, date_col>>,
                   <<>>,
                   schema, table,
                   <<>>,
                   <<>>),
             Query("recent_dates",
                   <<>>,
                   <<date_col>>,
                   <<>>,
                   schema, table,
                   <<date_col>>,
                   <<date_col, date_col>>) >>)

\* lines 93-96
PrecisionBanner ==
    Chunk("banner", <<"-", "3. NUMERIC PRECISION CHECK",
                      "   Check for NUMBER columns that exceed DECIMAL(38,18) precision">>, <<>>)

\* line 99
PrecisionComment(table) == Chunk("precision_comment", <<table, "numeric precision">>, <<>>)

\* lines 100-107
PrecisionQuery(schema, table) ==
    Chunk("precision", <<>>,
          << Query("precision",
                   <<schema, table, "NUMBER">>,
                   <<"column_name", "data_type", "data_precision", "data_scale">>,
                   <<>>,
                   "", "all_tab_columns",
                   <<"owner", "table_name", "data_type">>,
                   <<"column_id">>) >>)

\* lines 110-113
ExtremeBanner ==
    Chunk("banner", <<"-", "4. EXTREME NUMERIC VALUES",
                      "   Values that might overflow Spark Decimal types">>, <<>>)

\* lines 117-126
ExtremeValueQuery(schema, table, num_col) ==
    Chunk("extreme", <<table, num_col, "range check">>,
          << Query("extreme",
                   <<table, num_col>>,
                   <<num_col, num_col, num_col, num_col, num_col>>,
                   <<>>,
                   schema, table,
                   <<num_col>>,
                   <<>>) >>)

\* lines 129-132
SampleBanner ==
    Chunk("banner", <<"-", "5. SAMPLE PROBLEMATIC ROWS",
                      "   Get actual examples of bad data">>, <<>>)

\* lines 134-152: one print, two literal statements
SampleRows ==
    Chunk("sample_rows", <<"WH_LOANS", "Find rows with suspicious dates">>,
          << Query("suspicious_dates",
                   <<>>,
                   <<"ACCTNBR", "RUNDATE", "ORIGDATE", "DATEMAT", "PAIDOFFDATE", "STATUS">>,
                   <<>>,
                   "COCCDM", "WH_LOANS",
                   <<"ORIGDATE", "DATEMAT", "ORIGDATE", "DATEMAT">>,
                   <<>>),
             Query("earliest_dates",
                   <<>>,
                   <<"ACCTNBR", "RUNDATE", "ORIGDATE", "DATEMAT">>,
                   <<>>,
                   "COCCDM", "WH_LOANS",
                   <<"ORIGDATE">>,
                   <<"ORIGDATE">>) >>)

\* lines 155-157
CountBanner == Chunk("banner", <<"-", "6. QUICK ROW COUNTS">>, <<>>)

\* one branch of the UNION ALL of lines 160-164
CountBranch(schema, table) ==
    Query("row_count", <<table>>, <<>>, <<>>, schema, table, <<>>, <<>>)

\* variant: the UNION ALL is generated from the configuration
RowCounts_FromConfig ==
    Chunk("row_counts", <<>>,
          [i \in 1..Len(TABLES_TO_CHECK) |-> CountBranch(SCHEMA, TABLES_TO_CHECK[i].name)])

\* variant: the last branch of the UNION ALL is missing
RowCounts_MissingTable ==
    Chunk("row_counts", <<>>,
          << CountBranch("COCCDM", "WH_LOANS"),
             CountBranch("COCCDM", "WH_ACCTCOMMON") >>)

\* lines 159-165
RowCounts ==
    Chunk("row_counts", <<>>,
          << CountBranch("COCCDM", "WH_LOANS"),
             CountBranch("COCCDM", "WH_ACCTCOMMON"),
             CountBranch("COCCDM", "WH_ACCT") >>)

\* lines 171-174
SafeBanner ==
    Chunk("banner", <<"=", "RECOMMENDED COPYJOB SAFE QUERIES",
                      "Use these queries in CopyJob to handle DateTime issues">>, <<>>)

\* lines 176-202
SafeQuery ==
    Chunk("safe_query", <<"WH_LOANS", "Cast problematic dates to NULL">>,
          << Query("safe_extract",
                   <<>>,
                   <<"ACCTNBR", "RUNDATE", "OCC", "STATUS", "ORIGBAL", "CURRTERM",
                     "INTC", "LCRATE", "OLDPI",
                     "ORIGDATE", "DATEMAT", "PAIDOFFDATE",
                     "PF", "NOTEBAL", "BOOKBALANCE", "AVAILBALAMT", "COBAL",
                     "ACCTMISC3", "PCTPARTSOLD",
                     "DATELASTMAINT", "ADDDATE", "STOPDATE">>,
                   <<"ORIGDATE", "DATEMAT", "PAIDOFFDATE">>,
                   "COCCDM", "WH_LOANS",
                   <<"RUNDATE">>,
                   <<>>) >>)

\* lines 204-206
EndBanner == Chunk("banner", <<"=", "END OF DIAGNOSTIC SCRIPT">>, <<>>)

(***************************************************************************)
(* The configurations explored: the shipped one, and every ordered mapping  *)
(* of at most MaxTables tables holding at most MaxEntries column entries in *)
(* all, under either schema name.  Column lists may be empty and may repeat *)
(* a name; the same column name may occur in several tables.               *)
(***************************************************************************)
TableNames == <<"T1", "T2", "T3", "T4">>
DateColNames == {"D", "E"}
NumColNames == {"N"}
FilterColNames == {"F"}
Schemas == {"S", SchemaLiteral}
Envs == {0, 1}

ColLists(pool) == UNION { [1..k -> pool] : k \in 0..MaxEntries }

TableShapes ==
    { [date_filter_col |-> f, date_columns |-> d, numeric_columns |-> n] :
        f \in FilterColNames,
        d \in ColLists(DateColNames),
        n \in { m \in ColLists(NumColNames) : TRUE } }

RECURSIVE Entries(_)
Entries(shapes) ==
    IF shapes = <<>> THEN 0
    ELSE Len(Head(shapes).date_columns) + Len(Head(shapes).numeric_columns)
         + Entries(Tail(shapes))

Named(shapes) ==
    [i \in 1..Len(shapes) |->
        [name |-> TableNames[i],
         date_filter_col |-> shapes[i].date_filter_col,
         date_columns |-> shapes[i].date_columns,
         numeric_columns |-> shapes[i].numeric_columns]]

SmallShapes == { s \in TableShapes : Entries(<<s>>) <= MaxEntries }

Configs ==
    UNION { { Named(ss) : ss \in { x \in [1..n -> SmallShapes] : Entries(x) <= MaxEntries } } :
            n \in 0..MaxTables }

\* the example configuration of the template-correctness property
ExampleTables ==
    << [name |-> "T1", date_filter_col |-> "D",
        date_columns |-> <<"D">>, numeric_columns |-> <<"N">>] >>

Shipped == [tables |-> TablesLiteral, schema |-> SchemaLiteral]

Example == [tables |-> ExampleTables, schema |-> "S"]

Universe(u) ==
    IF u = "shipped" THEN {Shipped}
    ELSE {Shipped, Example} \cup { [tables |-> t, schema |-> s] : t \in Configs, s \in Schemas }

(***************************************************************************)
(* The script.                                                              *)
(***************************************************************************)
Reverse(seq) == [i \in 1..Len(seq) |-> seq[Len(seq) + 1 - i]]

\* variant: the mapping iterates in an order that depends on the process's hash seed
Items_HashOrder(tables) == IF env = 0 THEN tables ELSE Reverse(tables)

\* variant: the mapping iterates in reverse insertion order
Items_Reversed(tables) == Reverse(tables)

\* TABLES_TO_CHECK.items(): the entries in insertion order
Items(tables) == tables

Start(u) ==
    /\ universe = u
    /\ \E c \in Universe(u) : TABLES_TO_CHECK = c.tables /\ SCHEMA = c.schema
    /\ env \in Envs
    /\ pc = "header"
    /\ ti = 1
    /\ ci = 0
    /\ out = <<>>
    /\ run = 1
    /\ prevConfig = [tables |-> <<>>, schema |-> ""]
    /\ prevOut = <<>>

Init == Start("shipped")

InitAny == Start("any")

Frame == UNCHANGED <<TABLES_TO_CHECK, SCHEMA, env, run, prevConfig, prevOut, universe>>

\* a straight-line print: emit chunk c, continue at position to
Emit(c, to) ==
    /\ out' = Append(out, c)
    /\ pc' = to
    /\ ti' = 1
    /\ ci' = 0
    /\ Frame

\* lines 40-43
EmitHeader ==
    /\ pc = "header"
    /\ Emit(HeaderBanner, "date_banner")

\* lines 46-49
EmitDateBanner ==
    /\ pc = "date_banner"
    /\ Emit(DateBanner, "date_tables")

\* variant: the body of the date-distribution loop sits in the invalid-date loop
EmitDateTableComment_Fused ==
    /\ pc = "date_tables"
    /\ ti <= Len(TABLES_TO_CHECK)
    /\ out' = out \o << DateTableComment(TABLES_TO_CHECK[ti].name),
                        DateDistribution(SCHEMA, TABLES_TO_CHECK[ti].name,
                                         TABLES_TO_CHECK[ti].date_filter_col) >>
    /\ pc' = "date_cols"
    /\ ci' = 1
    /\ UNCHANGED ti
    /\ Frame

\* lines 51-52: next table of the invalid-date loop, its comment line
EmitDateTableComment ==
    /\ pc = "date_tables"
    /\ ti <= Len(Items(TABLES_TO_CHECK))
    /\ out' = Append(out, DateTableComment(Items(TABLES_TO_CHECK)[ti].name))
    /\ pc' = "date_cols"
    /\ ci' = 1
    /\ UNCHANGED ti
    /\ Frame

\* variant: the loop consumes the list it iterates (pops the column it prints)
EmitInvalidDateQuery_Pop ==
    /\ pc = "date_cols"
    /\ ci <= Len(TABLES_TO_CHECK[ti].date_columns)
    /\ out' = Append(out, InvalidDateQuery(SCHEMA, TABLES_TO_CHECK[ti].name,
                                           TABLES_TO_CHECK[ti].date_columns[ci]))
    /\ TABLES_TO_CHECK' =
          [TABLES_TO_CHECK EXCEPT ![ti].date_columns = Tail(TABLES_TO_CHECK[ti].date_columns)]
    /\ UNCHANGED <<pc, ti, ci, SCHEMA, env, run, prevConfig, prevOut, universe>>

\* lines 53-64: next date column of the current table, its query
EmitInvalidDateQuery ==
    /\ pc = "date_cols"
    /\ ci <= Len(Items(TABLES_TO_CHECK)[ti].date_columns)
    /\ out' = Append(out, InvalidDateQuery(SCHEMA, Items(TABLES_TO_CHECK)[ti].name,
                                           Items(TABLES_TO_CHECK)[ti].date_columns[ci]))
    /\ ci' = ci + 1
    /\ UNCHANGED <<pc, ti>>
    /\ Frame

\* variant: off by one, the loop stops before the last date column
DateColsExhausted_OffByOne ==
    /\ pc = "date_cols"
    /\ ci >= Len(TABLES_TO_CHECK[ti].date_columns)
    /\ pc' = "date_tables"
    /\ ti' = ti + 1
    /\ ci' = 0
    /\ UNCHANGED out
    /\ Frame

\* line 53: the date columns of the current table are exhausted
DateColsExhausted ==
    /\ pc = "date_cols"
    /\ ci > Len(Items(TABLES_TO_CHECK)[ti].date_columns)
    /\ pc' = "date_tables"
    /\ ti' = ti + 1
    /\ ci' = 0
    /\ UNCHANGED out
    /\ Frame

\* line 51 (loop exit), lines 67-70
EmitDistBanner ==
    /\ pc = "date_tables"
    /\ ti > Len(Items(TABLES_TO_CHECK))
    /\ Emit(DistBanner, "dist_tables")

\* variant: the step reads the first date column instead of date_filter_col
EmitDateDistribution_FirstDateCol ==
    /\ pc = "dist_tables"
    /\ ti <= Len(TABLES_TO_CHECK)
    /\ out' = Append(out, DateDistribution(SCHEMA, TABLES_TO_CHECK[ti].name,
                            IF TABLES_TO_CHECK[ti].date_columns = <<>>
                            THEN TABLES_TO_CHECK[ti].date_filter_col
                            ELSE TABLES_TO_CHECK[ti].date_columns[1]))
    /\ ti' = ti + 1
    /\ UNCHANGED <<pc, ci>>
    /\ Frame

\* lines 72-90
EmitDateDistribution ==
    /\ pc = "dist_tables"
    /\ ti <= Len(Items(TABLES_TO_CHECK))
    /\ out' = Append(out, DateDistribution(SCHEMA, Items(TABLES_TO_CHECK)[ti].name,
                                           Items(TABLES_TO_CHECK)[ti].date_filter_col))
    /\ ti' = ti + 1
    /\ UNCHANGED <<pc, ci>>
    /\ Frame

\* line 72 (loop exit), lines 93-96
EmitPrecisionBanner ==
    /\ pc = "dist_tables"
    /\ ti > Len(Items(TABLES_TO_CHECK))
    /\ Emit(PrecisionBanner, "prec_tables")

\* lines 98-107: two prints per table
EmitPrecisionQuery ==
    /\ pc = "prec_tables"
    /\ ti <= Len(Items(TABLES_TO_CHECK))
    /\ out' = out \o << PrecisionComment(Items(TABLES_TO_CHECK)[ti].name),
                        PrecisionQuery(SCHEMA, Items(TABLES_TO_CHECK)[ti].name) >>
    /\ ti' = ti + 1
    /\ UNCHANGED <<pc, ci>>
    /\ Frame

\* line 98 (loop exit), lines 110-113
EmitExtremeBanner ==
    /\ pc = "prec_tables"
    /\ ti > Len(Items(TABLES_TO_CHECK))
    /\ Emit(ExtremeBanner, "ext_tables")

\* line 115: next table of the extreme-value loop (prints nothing)
ExtremeNextTable ==
    /\ pc = "ext_tables"
    /\ ti <= Len(Items(TABLES_TO_CHECK))
    /\ pc' = "ext_cols"
    /\ ci' = 1
    /\ UNCHANGED <<ti, out>>
    /\ Frame

\* lines 116-126: next numeric column of the current table, its query
EmitExtremeValueQuery ==
    /\ pc = "ext_cols"
    /\ ci <= Len(Items(TABLES_TO_CHECK)[ti].numeric_columns)
    /\ out' = Append(out, ExtremeValueQuery(SCHEMA, Items(TABLES_TO_CHECK)[ti].name,
                                            Items(TABLES_TO_CHECK)[ti].numeric_columns[ci]))
    /\ ci' = ci + 1
    /\ UNCHANGED <<pc, ti>>
    /\ Frame

\* line 116: the numeric columns of the current table are exhausted
ExtremeColsExhausted ==
    /\ pc = "ext_cols"
    /\ ci > Len(Items(TABLES_TO_CHECK)[ti].numeric_columns)
    /\ pc' = "ext_tables"
    /\ ti' = ti + 1
    /\ ci' = 0
    /\ UNCHANGED out
    /\ Frame

\* line 115 (loop exit), lines 129-132
EmitSampleBanner ==
    /\ pc = "ext_tables"
    /\ ti > Len(Items(TABLES_TO_CHECK))
    /\ Emit(SampleBanner, "sample")

\* lines 134-152
EmitSampleRows ==
    /\ pc = "sample"
    /\ Emit(SampleRows, "count_banner")

\* lines 155-157
EmitCountBanner ==
    /\ pc = "count_banner"
    /\ Emit(CountBanner, "count")

\* lines 159-165
EmitRowCounts ==
    /\ pc = "count"
    /\ Emit(RowCounts, "safe_banner")

\* lines 171-174
EmitSafeBanner ==
    /\ pc = "safe_banner"
    /\ Emit(SafeBanner, "safe")

\* lines 176-202
EmitSafeQuery ==
    /\ pc = "safe"
    /\ Emit(SafeQuery, "end_banner")

\* lines 204-206
EmitEndBanner ==
    /\ pc = "end_banner"
    /\ Emit(EndBanner, "done")

\* the script is run again: a new process, with the same configuration or
\* (when configurations vary) with the example one
Reinvoke ==
    /\ pc = "done"
    /\ run < MaxRuns
    /\ run' = run + 1
    /\ prevConfig' = [tables |-> TABLES_TO_CHECK, schema |-> SCHEMA]
    /\ prevOut' = out
    /\ \E c \in {[tables |-> TABLES_TO_CHECK, schema |-> SCHEMA]}
                  \cup (IF universe = "any" THEN {Example} ELSE {}) :
          TABLES_TO_CHECK' = c.tables /\ SCHEMA' = c.schema
    /\ env' \in Envs
    /\ pc' = "header"
    /\ ti' = 1
    /\ ci' = 0
    /\ out' = <<>>
    /\ UNCHANGED universe

Next ==
    \/ EmitHeader
    \/ EmitDateBanner
    \/ EmitDateTableComment
    \/ EmitInvalidDateQuery
    \/ DateColsExhausted
    \/ EmitDistBanner
    \/ EmitDateDistribution
    \/ EmitPrecisionBanner
    \/ EmitPrecisionQuery
    \/ EmitExtremeBanner
    \/ ExtremeNextTable
    \/ EmitExtremeValueQuery
    \/ ExtremeColsExhausted
    \/ EmitSampleBanner
    \/ EmitSampleRows
    \/ EmitCountBanner
    \/ EmitRowCounts
    \/ EmitSafeBanner
    \/ EmitSafeQuery
    \/ EmitEndBanner
    \/ Reinvoke

Spec == Init /\ [][Next]_vars

SpecAny == InitAny /\ [][Next]_vars

(***************************************************************************)
(* Reading the output.                                                      *)
(***************************************************************************)
OfKind(o, k) == SelectSeq(o, LAMBDA c : c.kind = k)

Count(seq, x) == Cardinality({ i \in 1..Len(seq) : seq[i] = x })

IsPrefix(a, b) == Len(a) <= Len(b) /\ a = SubSeq(b, 1, Len(a))

Range(seq) == { seq[i] : i \in 1..Len(seq) }

\* the (table, column) pairs of a configuration, table by table, list order
RECURSIVE DatePairs(_)
DatePairs(tables) ==
    IF tables = <<>> THEN <<>>
    ELSE [j \in 1..Len(Head(tables).date_columns) |->
             <<Head(tables).name, Head(tables).date_columns[j]>>]
         \o DatePairs(Tail(tables))

RECURSIVE NumericPairs(_)
NumericPairs(tables) ==
    IF tables = <<>> THEN <<>>
    ELSE [j \in 1..Len(Head(tables).numeric_columns) |->
             <<Head(tables).name, Head(tables).numeric_columns[j]>>]
         \o NumericPairs(Tail(tables))

TableNamesOf(tables) == [i \in 1..Len(tables) |-> tables[i].name]

\* the labels ('<table>' as tbl, '<column>' as col) of the queries of kind k
Labels(o, k) == [i \in 1..Len(OfKind(o, k)) |-> OfKind(o, k)[i].queries[1].literals]

\* every column reference of a statement
ColumnRefs(q) == Range(q.select) \cup Range(q.where) \cup Range(q.tail)

\* the emission step (1..8, 9 for the closing banner) a chunk belongs to
StepOf(c) ==
    IF c.kind = "banner" THEN
        CASE c.title[2] = "DIAGNOSTIC SQL QUERIES" -> 1
          [] c.title[2] = "1. INVALID DATE CHECK" -> 2
          [] c.title[2] = "2. DATE DISTRIBUTION CHECK" -> 3
          [] c.title[2] = "3. NUMERIC PRECISION CHECK" -> 4
          [] c.title[2] = "4. EXTREME NUMERIC VALUES" -> 5
          [] c.title[2] = "5. SAMPLE PROBLEMATIC ROWS" -> 6
          [] c.title[2] = "6. QUICK ROW COUNTS" -> 7
          [] c.title[2] = "RECOMMENDED COPYJOB SAFE QUERIES" -> 8
          [] c.title[2] = "END OF DIAGNOSTIC SCRIPT" -> 9
    ELSE
        CASE c.kind \in {"date_comment", "invalid_date"} -> 2
          [] c.kind = "date_distribution" -> 3
          [] c.kind \in {"precision_comment", "precision"} -> 4
          [] c.kind = "extreme" -> 5
          [] c.kind = "sample_rows" -> 6
          [] c.kind = "row_counts" -> 7
          [] c.kind = "safe_query" -> 8

Config == [tables |-> TABLES_TO_CHECK, schema |-> SCHEMA]

Done == pc = "done"

(***************************************************************************)
(* C1 - Coverage completeness.  After a complete run the output holds, for  *)
(* every table t and every entry c of t's date_columns, one invalid-date    *)
(* query per entry for the pair (t, c), and for every entry n of            *)
(* numeric_columns one extreme-value query per entry for (t, n); no such    *)
(* query is emitted for a pair that is not configured, and the totals are   *)
(* the summed list lengths.                                                 *)
(***************************************************************************)
CoverageComplete ==
    Done =>
        /\ \A i \in 1..Len(TABLES_TO_CHECK) :
              /\ \A j \in 1..Len(TABLES_TO_CHECK[i].date_columns) :
                    Count(Labels(out, "invalid_date"),
                          <<TABLES_TO_CHECK[i].name, TABLES_TO_CHECK[i].date_columns[j]>>)
                      = Count(TABLES_TO_CHECK[i].date_columns, TABLES_TO_CHECK[i].date_columns[j])
              /\ \A j \in 1..Len(TABLES_TO_CHECK[i].numeric_columns) :
                    Count(Labels(out, "extreme"),
                          <<TABLES_TO_CHECK[i].name, TABLES_TO_CHECK[i].numeric_columns[j]>>)
                      = Count(TABLES_TO_CHECK[i].numeric_columns, TABLES_TO_CHECK[i].numeric_columns[j])
        /\ Range(Labels(out, "invalid_date")) \subseteq Range(DatePairs(TABLES_TO_CHECK))
        /\ Range(Labels(out, "extreme")) \subseteq Range(NumericPairs(TABLES_TO_CHECK))
        /\ Len(OfKind(out, "invalid_date")) = Len(DatePairs(TABLES_TO_CHECK))
        /\ Len(OfKind(out, "extreme")) = Len(NumericPairs(TABLES_TO_CHECK))

\* a finished run over two tables, one of them with two date columns, and a numeric column
CoverageWitness ==
    /\ Done
    /\ Len(TABLES_TO_CHECK) = 2
    /\ \E i \in 1..2 : Len(TABLES_TO_CHECK[i].date_columns) = 2
    /\ \E i \in 1..2 : Len(TABLES_TO_CHECK[i].numeric_columns) = 1
    /\ Len(OfKind(out, "invalid_date")) = 2

(***************************************************************************)
(* C2 - Section ordering.  In every run, whatever the configuration, no     *)
(* output of a later step is printed before output of an earlier step, so   *)
(* each step's output is contiguous; a finished run holds all eight steps.  *)
(***************************************************************************)
SectionOrdering ==
    /\ \A i, j \in 1..Len(out) : i < j => StepOf(out[i]) <= StepOf(out[j])
    /\ Done => \A s \in 1..8 : \E i \in 1..Len(out) : StepOf(out[i]) = s

\* a finished run in which both configuration-driven loops over columns printed something
SectionOrderingWitness ==
    /\ Done
    /\ Len(TABLES_TO_CHECK) = 2
    /\ Len(OfKind(out, "invalid_date")) >= 1
    /\ Len(OfKind(out, "extreme")) >= 1
    /\ Len(OfKind(out, "date_distribution")) = 2

(***************************************************************************)
(* C3 - Determinism.  Two runs started from the same configuration print    *)
(* the same output, whatever the environment of either process.             *)
(***************************************************************************)
Determinism ==
    (Done /\ run > 1 /\ prevConfig = Config) => out = prevOut

\* a second run of a two-table configuration has finished, in the other environment value
DeterminismWitness ==
    /\ Done
    /\ run = 2
    /\ prevConfig = Config
    /\ env = 1
    /\ Len(TABLES_TO_CHECK) = 2
    /\ Len(out) > 12

(***************************************************************************)
(* C4 - Fixed-block literalness.  The sample-row block, the row-count query *)
(* and the remediation query are printed exactly once per run, and their    *)
(* text is the same in two runs whatever the two configurations are.        *)
(***************************************************************************)
FixedBlocksLiteral ==
    Done =>
        \A k \in {"sample_rows", "row_counts", "safe_query"} :
            /\ Len(OfKind(out, k)) = 1
            /\ run > 1 => OfKind(out, k) = OfKind(prevOut, k)

\* a second run has finished whose configuration differs from the first run's in tables and schema
FixedBlocksWitness ==
    /\ Done
    /\ run = 2
    /\ prevConfig.schema # SCHEMA
    /\ Len(prevConfig.tables) # Len(TABLES_TO_CHECK)
    /\ Len(OfKind(prevOut, "row_counts")) = 1

(***************************************************************************)
(* C5 - Template correctness.  The k-th invalid-date query printed is the   *)
(* query of the k-th configured (table, date column) pair (t, c): it reads  *)
(* FROM SCHEMA.t, is labelled t and c, references c in MIN and MAX of its   *)
(* SELECT list and in each of the four disjuncts of its WHERE clause, and   *)
(* names nothing else.                                                      *)
(***************************************************************************)
TemplateCorrect ==
    /\ Len(OfKind(out, "invalid_date")) <= Len(DatePairs(TABLES_TO_CHECK))
    /\ \A k \in 1..Len(OfKind(out, "invalid_date")) :
          LET c == OfKind(out, "invalid_date")[k]
              t == DatePairs(TABLES_TO_CHECK)[k][1]
              d == DatePairs(TABLES_TO_CHECK)[k][2]
          IN  /\ Len(c.queries) = 1
              /\ c.queries[1].schema = SCHEMA
              /\ c.queries[1].table = t
              /\ c.queries[1].literals = <<t, d>>
              /\ c.queries[1].select = <<d, d>>
              /\ c.queries[1].where = <<d, d, d, d>>
              /\ c.queries[1].tail = <<>>
              /\ c.queries[1].guarded = <<>>

\* the query of the second date column E of the second table T2 under schema S has been printed
TemplateWitness ==
    /\ SCHEMA = "S"
    /\ Len(TABLES_TO_CHECK) = 2
    /\ TABLES_TO_CHECK[1].date_columns = <<"D">>
    /\ TABLES_TO_CHECK[2].date_columns = <<"D", "E">>
    /\ Len(OfKind(out, "invalid_date")) = 3
    /\ OfKind(out, "invalid_date")[3].queries[1].where = <<"E", "E", "E", "E">>

(***************************************************************************)
(* C6 - Date-distribution step.  A finished run holds one distribution      *)
(* chunk per table, in mapping order, each of exactly two statements (the   *)
(* aggregate summary, then the trailing-7-days grouped count), both FROM    *)
(* SCHEMA.t, whose only column reference is t's date_filter_col; the step   *)
(* prints twice as many statements as there are tables.                     *)
(***************************************************************************)
DateDistributionStep ==
    Done =>
        /\ Len(OfKind(out, "date_distribution")) = Len(TABLES_TO_CHECK)
        /\ \A i \in 1..Len(TABLES_TO_CHECK) :
              LET c == OfKind(out, "date_distribution")[i]
              IN  /\ Len(c.queries) = 2
                  /\ c.queries[1].q = "date_summary"
                  /\ c.queries[2].q = "recent_dates"
                  /\ \A n \in 1..2 :
                        /\ c.queries[n].schema = SCHEMA
                        /\ c.queries[n].table = TABLES_TO_CHECK[i].name
                        /\ ColumnRefs(c.queries[n]) = {TABLES_TO_CHECK[i].date_filter_col}
                        /\ c.queries[n].literals = <<>>

\* a finished run over two tables whose filter column is none of their date columns
DateDistributionWitness ==
    /\ Done
    /\ Len(TABLES_TO_CHECK) = 2
    /\ \A i \in 1..2 :
          /\ TABLES_TO_CHECK[i].date_columns # <<>>
          /\ TABLES_TO_CHECK[i].date_filter_col \notin Range(TABLES_TO_CHECK[i].date_columns)
    /\ Len(OfKind(out, "date_distribution")) = 2

(***************************************************************************)
(* C7 - Iteration order.  At every moment the invalid-date queries printed  *)
(* so far are the first configured (table, date column) pairs in mapping    *)
(* order and, within a table, list order; likewise the extreme-value        *)
(* queries; and the date-distribution and numeric-precision steps visit the *)
(* tables in mapping order.                                                 *)
(***************************************************************************)
IterationOrder ==
    /\ IsPrefix(Labels(out, "invalid_date"), DatePairs(TABLES_TO_CHECK))
    /\ IsPrefix(Labels(out, "extreme"), NumericPairs(TABLES_TO_CHECK))
    /\ IsPrefix([i \in 1..Len(OfKind(out, "date_distribution")) |->
                    OfKind(out, "date_distribution")[i].queries[1].table],
                TableNamesOf(TABLES_TO_CHECK))
    /\ IsPrefix([i \in 1..Len(OfKind(out, "precision")) |->
                    OfKind(out, "precision")[i].queries[1].literals[2]],
                TableNamesOf(TABLES_TO_CHECK))
    /\ IsPrefix([i \in 1..Len(OfKind(out, "date_comment")) |->
                    OfKind(out, "date_comment")[i].title[1]],
                TableNamesOf(TABLES_TO_CHECK))

\* a finished run of the shipped configuration: three tables, lists of several columns
IterationOrderWitness ==
    /\ Done
    /\ Config = Shipped
    /\ Labels(out, "invalid_date")[8] = <<"WH_ACCTCOMMON", "EFFDATE">>
    /\ Labels(out, "extreme")[17] = <<"WH_ACCT", "INTRATE">>

(***************************************************************************)
(* C8 - Remediation query.  Every configured date column of WH_LOANS that   *)
(* the safe-extraction query returns is returned through a CASE expression  *)
(* that yields NULL when the value is out of range.                         *)
(***************************************************************************)
SafeQueryGuardsDates ==
    \A i \in 1..Len(OfKind(out, "safe_query")) :
        LET q == OfKind(out, "safe_query")[i].queries[1]
        IN  \A t \in Range(TABLES_TO_CHECK) :
                t.name = q.table =>
                    Range(q.select) \cap Range(t.date_columns) \subseteq Range(q.guarded)

(***************************************************************************)
(* C9 - Configuration immutability and well-formedness.  In every state of  *)
(* a run the configuration is the literal it was constructed with, its      *)
(* table names are unique and every column list is non-empty.               *)
(***************************************************************************)
WellFormed(tables) ==
    /\ \A i, j \in 1..Len(tables) : tables[i].name = tables[j].name => i = j
    /\ \A i \in 1..Len(tables) :
          tables[i].date_columns # <<>> /\ tables[i].numeric_columns # <<>>

ConfigImmutable == Config = Shipped /\ WellFormed(TABLES_TO_CHECK)

\* every emission step has acted
ConfigImmutableWitness == Done /\ Len(out) = 57

(***************************************************************************)
(* C10 - Consistency of the fixed blocks with the configuration.  The       *)
(* row-count query counts exactly the tables of TABLES_TO_CHECK, each once, *)
(* under SCHEMA; every table the sample-row and remediation blocks read is  *)
(* a table of TABLES_TO_CHECK under SCHEMA.                                 *)
(***************************************************************************)
FixedBlocksConsistent ==
    /\ \A i \in 1..Len(OfKind(out, "row_counts")) :
          LET qs == OfKind(out, "row_counts")[i].queries
          IN  /\ Len(qs) = Len(TABLES_TO_CHECK)
              /\ { qs[n].table : n \in 1..Len(qs) } = Range(TableNamesOf(TABLES_TO_CHECK))
              /\ \A n \in 1..Len(qs) :
                    qs[n].schema = SCHEMA /\ qs[n].literals = <<qs[n].table>>
    /\ \A k \in {"sample_rows", "safe_query"} :
          \A i \in 1..Len(OfKind(out, k)) :
              \A n \in 1..Len(OfKind(out, k)[i].queries) :
                  /\ OfKind(out, k)[i].queries[n].table \in Range(TableNamesOf(TABLES_TO_CHECK))
                  /\ OfKind(out, k)[i].queries[n].schema = SCHEMA

\* the three fixed blocks have been printed
FixedBlocksConsistentWitness ==
    /\ Len(OfKind(out, "row_counts")) = 1
    /\ Len(OfKind(out, "sample_rows")) = 1
    /\ Len(OfKind(out, "safe_query")) = 1

====
